---- MODULE Spec2Model ----
(***************************************************************************)
(* Multi-source data acquisition layer of GEO_EARTH:                       *)
(*   backend/app/services/data_sources.py  (DataSourcesService)            *)
(*   backend/app/api/data.py               (HTTP routes over the service)  *)
(*   backend/app/services/data_ingest.py   (VolcanicDataIngestor)          *)
(*                                                                         *)
(* Time is a clock of ticks (now).  Quality scores are kept in units of    *)
(* 1/ScoreScale and reliabilities in units of 1/RelUnit percent, so that   *)
(* every value the code computes in floating point is an exact integer.    *)
(***************************************************************************)
EXTENDS Integers, Sequences, FiniteSets, TLC

\* ------------------------------------------------------------------ bounds
MaxTime == 2            \* the clock runs 1..MaxTime
MaxRefreshes == 2       \* refreshes started in one behaviour

\* --------------------------------------------------------- program values
None == 0 - 1           \* Python None for a timestamp or a number
Absent == "absent"      \* a key the dict does not have (string-valued keys)
NoError == << >>        \* no 'error' key
NoData == {}            \* an empty dict of fetched data, or no redis value

NumEndpoints == 3       \* len(endpoints) in fetch_noaa_space_weather_data
ScoreScale == 60        \* quality_score 1.0
RelUnit == 3            \* reliability 1 percent
HoursPerTick == 12      \* one tick of the clock, in hours
StaleHours == 24        \* check_quality: age_hours > 24
RefreshMinutes == 20    \* next_update = last_update + 20 minutes

SourceNames == {"USGS", "EMSC", "NOAA", "GFZ", "NASA"}
source_names == <<"USGS", "EMSC", "SPACE_WEATHER", "GFZ">>
Refreshers == {"r1", "r2"}   \* requests that can be in flight together

lower(name) ==
    CASE name = "USGS" -> "usgs"
      [] name = "EMSC" -> "emsc"
      [] name = "SPACE_WEATHER" -> "space_weather"
      [] name = "GFZ" -> "gfz"

Pct(p) == p * RelUnit

\* (latitude, longitude, radius_km) of a refresh: the defaults of the route,
\* and another place
NoKey == "none"
HomeKey == "40.7128,-74.0060,100"
Keys == {HomeKey, "35.6762,139.6503,100"}

VARIABLES
    data_sources,   \* self.data_sources: the registry
    cached_data,    \* self.cached_data
    last_update,    \* self.last_update
    now,            \* datetime.utcnow()
    pc,             \* per request: "idle", "gather", "done"
    results,        \* per request: what each adapter coroutine returned
    merged,         \* per request: what fetch_space_weather_with_fallback returned
    start_time,     \* per request: start_time of update_all_sources
    response,       \* per request: what the route answered
    started,        \* number of refreshes started
    request_key,    \* per request: (latitude, longitude, radius_km) it was given
    requests,       \* per request and source: HTTP requests the adapter issued
    snapshot_key,   \* history: request_key of the refresh that stored cached_data
    test_pc,        \* test_data_source_connectivity: 0 not running, i awaiting
                    \* the i-th adapter of test_order
    test_results,   \* test_data_source_connectivity: test_results
    test_response,  \* what GET /sources/test-connectivity answered
    ingest_pc,      \* fetch_usgs_data: "idle", "attempt", "sleep", "returned"
    attempt,        \* fetch_usgs_data: the loop variable attempt
    trace,          \* history: the attempts and sleeps of fetch_usgs_data
    redis,          \* redis value under the key usgs_data_<volcano_id>
    returned,       \* what fetch_usgs_data returned
    unscored,       \* check_quality: the dict it is given
    scored,         \* check_quality: the dict it returns
    all_pc,         \* ingest_all_sources: "idle", "gather", "returned"
    all_tasks,      \* ingest_all_sources: what its three fetches handed over
    all_result      \* what ingest_all_sources returned

refresh_vars == <<request_key, requests, snapshot_key>>
test_vars == <<test_pc, test_results, test_response>>
ingest_vars == <<ingest_pc, attempt, trace, redis, returned>>
quality_vars == <<unscored, scored>>
all_vars == <<all_pc, all_tasks, all_result>>
aux_vars == <<quality_vars, all_vars>>

vars == <<data_sources, cached_data, last_update, now, pc, results, merged,
          start_time, response, started, refresh_vars, test_vars, ingest_vars,
          aux_vars>>

\* ------------------------------------------------------------ result dicts
\* kind: "pending" (coroutine still awaiting), "dict" (returned a dict),
\*       "exception" (an exception object, as gather(return_exceptions=True)
\*       hands it over)
Pending ==
    [kind |-> "pending", success |-> FALSE, source |-> Absent, payload |-> None,
     confidence |-> Absent, error |-> NoError, successful_endpoints |-> None,
     total_endpoints |-> None, fetch_timestamp |-> None, age_hours |-> None]

Dict(success, source, payload, confidence, error, se, te, ts) ==
    [kind |-> "dict", success |-> success, source |-> source, payload |-> payload,
     confidence |-> confidence, error |-> error, successful_endpoints |-> se,
     total_endpoints |-> te, fetch_timestamp |-> ts, age_hours |-> None]

Raised(source, text) ==
    [kind |-> "exception", success |-> FALSE, source |-> source, payload |-> None,
     confidence |-> Absent, error |-> <<text>>, successful_endpoints |-> None,
     total_endpoints |-> None, fetch_timestamp |-> None, age_hours |-> None]

\* dict.get(key, default)
Get(v, absent, default) == IF v = absent THEN default ELSE v

\* registry entry
Entry(status, lu, rel) == [status |-> status, last_update |-> lu, reliability |-> rel]

InitSources == [s \in SourceNames |-> Entry("unknown", None, 0)]

\* ---------------------------------------------------------- quality scorer
\* A fetch_timestamp is a string, kept as a number:
\*   None              no 'fetch_timestamp' key, or an empty string
\*   Unreadable        a string that datetime.fromisoformat rejects
\*   0 .. AwareFrom-1  the ISO string of that time without UTC offset, as
\*                     datetime.utcnow().isoformat() writes it
\*   AwareFrom + n     the ISO string of time n with 'Z' or a UTC offset
Unreadable == 0 - 2
AwareFrom == 100

\* datetime.fromisoformat(fetch_timestamp.replace('Z', '+00:00')): ok is
\* false when it raises ValueError; tzinfo tells an aware datetime
fromisoformat(ts) ==
    [ok |-> ts >= 0,
     tzinfo |-> ts >= AwareFrom,
     time |-> IF ts >= AwareFrom THEN ts - AwareFrom ELSE ts]

\* the except branch, and the branch of a missing timestamp
UnknownQuality(data) == [data EXCEPT !.confidence = "unknown", !.age_hours = 0]

\* as check_quality, but a readable timestamp is never taken as fresh
check_quality_never_fresh(data, t) ==
    IF data.fetch_timestamp # None
    THEN LET fetch_time == fromisoformat(data.fetch_timestamp)
         IN IF ~fetch_time.ok \/ fetch_time.tzinfo
            THEN UnknownQuality(data)
            ELSE [data EXCEPT !.confidence = "low",
                              !.age_hours = (t - fetch_time.time) * HoursPerTick]
    ELSE UnknownQuality(data)

\* datetime.utcnow() is naive: subtracting an aware datetime from it raises
\* TypeError, which the except branch catches like a ValueError
check_quality(data, t) ==
    IF data.fetch_timestamp # None
    THEN LET fetch_time == fromisoformat(data.fetch_timestamp)
         IN IF ~fetch_time.ok \/ fetch_time.tzinfo
            THEN UnknownQuality(data)
            ELSE LET age_hours == (t - fetch_time.time) * HoursPerTick
                 IN IF age_hours > StaleHours
                    THEN [data EXCEPT !.confidence = "low", !.age_hours = age_hours]
                    ELSE [data EXCEPT !.confidence = "high", !.age_hours = age_hours]
    ELSE UnknownQuality(data)

\* ---------------------------------------------------------------- adapters
\* Each adapter takes the registry, the outcome of its network I/O and the
\* time, and gives the registry it leaves and the dict the coroutine returns.
\* Every adapter body is inside "try ... except Exception", so an adapter
\* returns a dict for every outcome.
\*   "ok"   the request was answered and parsed
\*   "fail" the request or the parse raised: the except branch runs
SimpleOutcomes == {"ok", "fail"}

\* as Failing, but the except branch forgets what it knew of the source
Failing_forgetting(ds, name, confidence, text) ==
    [ds |-> [ds EXCEPT ![name].status = "unknown", ![name].reliability = 0],
     result |-> Dict(FALSE, name, None, confidence, <<name, text>>, None, None, None)]

Failing(ds, name, confidence, text) ==
    [ds |-> [ds EXCEPT ![name].status = "error", ![name].reliability = 0],
     result |-> Dict(FALSE, name, None, confidence, <<name, text>>, None, None, None)]

fetch_usgs_earthquake_data(ds, o, t) ==
    IF o = "ok"
    THEN [ds |-> [ds EXCEPT !["USGS"] = Entry("active", t, Pct(100))],
          result |-> Dict(TRUE, "USGS", t, Absent, NoError, None, None, t)]
    ELSE Failing(ds, "USGS", Absent, "http")

fetch_emsc_earthquake_data(ds, o, t) ==
    IF o = "ok"
    THEN [ds |-> [ds EXCEPT !["EMSC"] = Entry("active", t, Pct(95))],
          result |-> Dict(TRUE, "EMSC", t, Absent, NoError, None, None, t)]
    ELSE Failing(ds, "EMSC", Absent, "http")

fetch_gfz_geomagnetic_data(ds, o, t) ==
    IF o = "ok"
    THEN [ds |-> [ds EXCEPT !["GFZ"] = Entry("active", t, Pct(85))],
          result |-> Dict(TRUE, "GFZ", t, Absent, NoError, None, None, t)]
    ELSE Failing(ds, "GFZ", Absent, "http")

\* NOAA: o.kind = "endpoints" with o.n of the sub-requests answered with
\* non-empty data (each sub-request has its own try), or "fail" for an
\* exception outside the per-endpoint try.
NoaaOutcomes ==
    [kind : {"endpoints"}, n : 0..NumEndpoints] \cup [kind : {"fail"}, n : {0}]

\* as fetch_noaa_space_weather_data, but the fetch succeeds only when every
\* endpoint answered, and its reliability is 90 or 0
fetch_noaa_all_or_nothing(ds, o, t) ==
    IF o.kind = "endpoints"
    THEN LET successful_endpoints == o.n
             all_answered == successful_endpoints = NumEndpoints
             result == Dict(all_answered, "NOAA", t, Absent, NoError,
                            successful_endpoints, NumEndpoints, t)
         IN [ds |-> [ds EXCEPT !["NOAA"] =
                        Entry(IF all_answered THEN "active" ELSE "error",
                              t, IF all_answered THEN Pct(90) ELSE 0)],
             result |-> check_quality(result, t)]
    ELSE Failing(ds, "NOAA", "none", "http")

\* as fetch_noaa_space_weather_data, but the reliability is not divided by
\* the number of endpoints
fetch_noaa_undivided_reliability(ds, o, t) ==
    IF o.kind = "endpoints"
    THEN LET successful_endpoints == o.n
             result == Dict(successful_endpoints > 0, "NOAA", t, Absent, NoError,
                            successful_endpoints, NumEndpoints, t)
         IN [ds |-> [ds EXCEPT !["NOAA"] =
                        Entry(IF successful_endpoints > 0 THEN "active" ELSE "error",
                              t, successful_endpoints * Pct(90))],
             result |-> check_quality(result, t)]
    ELSE Failing(ds, "NOAA", "none", "http")

fetch_noaa_space_weather_data(ds, o, t) ==
    IF o.kind = "endpoints"
    THEN LET successful_endpoints == o.n
             reliability == (successful_endpoints * Pct(90)) \div NumEndpoints
             result == Dict(successful_endpoints > 0, "NOAA", t, Absent, NoError,
                            successful_endpoints, NumEndpoints, t)
         IN [ds |-> [ds EXCEPT !["NOAA"] =
                        Entry(IF successful_endpoints > 0 THEN "active" ELSE "error",
                              t, reliability)],
             result |-> check_quality(result, t)]
    ELSE Failing(ds, "NOAA", "none", "http")

\* NASA: "ok" the first answer is usable; "retry_ok" the first answer is the
\* text NO SPACECRAFT SELECTED and the retry with spacecraft=wind is usable;
\* "retry_fail" both answers are that text; "fail" the first request raised;
\* "retry_raise" the first answer is that text and the retry raised.
NasaOutcomes == {"ok", "retry_ok", "retry_fail", "fail", "retry_raise"}

\* as fetch_nasa_space_weather_data, but the answer to the retry is returned
\* without being scored by check_quality
fetch_nasa_retry_unscored(ds, o, t) ==
    IF o = "ok"
    THEN [ds |-> [ds EXCEPT !["NASA"] = Entry("active", t, Pct(88))],
          result |-> check_quality(
                        Dict(TRUE, "NASA", t, Absent, NoError, None, None, t), t)]
    ELSE IF o = "retry_ok"
    THEN [ds |-> [ds EXCEPT !["NASA"] = Entry("active", t, Pct(88))],
          result |-> Dict(TRUE, "NASA", t, Absent, NoError, None, None, t)]
    ELSE Failing(ds, "NASA", "none",
                 IF o = "retry_fail" THEN "no spacecraft" ELSE "http")

fetch_nasa_space_weather_data(ds, o, t) ==
    IF o \in {"ok", "retry_ok"}
    THEN [ds |-> [ds EXCEPT !["NASA"] = Entry("active", t, Pct(88))],
          result |-> check_quality(
                        Dict(TRUE, "NASA", t, Absent, NoError, None, None, t), t)]
    ELSE Failing(ds, "NASA", "none",
                 IF o = "retry_fail" THEN "no spacecraft" ELSE "http")

\* the client.get calls an adapter makes for an outcome: one for USGS, EMSC
\* and GFZ; one per endpoint for NOAA (none when the client itself failed);
\* one for NASA, and a second one when the first answer is the text
\* NO SPACECRAFT SELECTED
client_get_calls(name, o) ==
    CASE name = "NASA" ->
            IF o \in {"retry_ok", "retry_fail", "retry_raise"} THEN 2 ELSE 1
      [] name = "NOAA" -> IF o.kind = "endpoints" THEN NumEndpoints ELSE 0
      [] OTHER -> 1

\* ---------------------------------------------------------- fallback merger
\* Scores in units of 1/ScoreScale: 0.9, 0.8, 0.6, 0.4
ScoreNasaHigh == 54
ScoreNoaaHigh == 48
ScoreNoaaLow == 36
ScoreNasaLow == 24

MergedPending ==
    [kind |-> "pending", success |-> FALSE, primary_source |-> Absent,
     fallback_used |-> FALSE, payload |-> None, confidence |-> "none",
     quality_score |-> 0, error |-> NoError]

\* as merge_sources_legacy, but the primary is taken whenever it succeeded,
\* whatever its confidence
merge_primary_whenever_ok(nasa_result, noaa_result) ==
    LET merged_data == [MergedPending EXCEPT !.kind = "dict"]
    IN
    IF nasa_result.success
    THEN [merged_data EXCEPT
            !.success = TRUE,
            !.primary_source = "NASA",
            !.payload = nasa_result.payload,
            !.confidence = Get(nasa_result.confidence, Absent, "unknown"),
            !.quality_score = IF nasa_result.confidence = "high"
                              THEN ScoreNasaHigh ELSE ScoreNasaLow]
    ELSE IF noaa_result.success
    THEN [merged_data EXCEPT
            !.success = TRUE,
            !.primary_source = "NOAA",
            !.fallback_used = TRUE,
            !.payload = noaa_result.payload,
            !.confidence = Get(noaa_result.confidence, Absent, "unknown"),
            !.quality_score = ScoreNoaaLow]
    ELSE [merged_data EXCEPT
            !.error = <<"NASA">> \o Get(nasa_result.error, NoError, <<"Unknown error">>)
                      \o <<"NOAA">> \o Get(noaa_result.error, NoError, <<"Unknown error">>)]

\* as merge_sources_legacy, but without the last resort of a primary that
\* succeeded with a confidence that is not high
merge_without_degraded_primary(nasa_result, noaa_result) ==
    LET merged_data == [MergedPending EXCEPT !.kind = "dict"]
    IN
    IF nasa_result.success /\ nasa_result.confidence = "high"
    THEN [merged_data EXCEPT
            !.success = TRUE,
            !.primary_source = "NASA",
            !.payload = nasa_result.payload,
            !.confidence = "high",
            !.quality_score = ScoreNasaHigh]
    ELSE IF noaa_result.success
    THEN [merged_data EXCEPT
            !.success = TRUE,
            !.primary_source = "NOAA",
            !.fallback_used = TRUE,
            !.payload = noaa_result.payload,
            !.confidence = Get(noaa_result.confidence, Absent, "unknown"),
            !.quality_score = ScoreNoaaLow]
    ELSE [merged_data EXCEPT
            !.error = <<"NASA">> \o Get(nasa_result.error, NoError, <<"Unknown error">>)
                      \o <<"NOAA">> \o Get(noaa_result.error, NoError, <<"Unknown error">>)]

\* as merge_sources_legacy, but the fallback provider's score is its base
\* score, whatever the share of its endpoints that answered
merge_without_endpoint_ratio(nasa_result, noaa_result) ==
    LET merged_data == [MergedPending EXCEPT !.kind = "dict"]
    IN
    IF nasa_result.success /\ nasa_result.confidence = "high"
    THEN [merged_data EXCEPT
            !.success = TRUE,
            !.primary_source = "NASA",
            !.payload = nasa_result.payload,
            !.confidence = "high",
            !.quality_score = ScoreNasaHigh]
    ELSE IF noaa_result.success
    THEN [merged_data EXCEPT
            !.success = TRUE,
            !.primary_source = "NOAA",
            !.fallback_used = TRUE,
            !.payload = noaa_result.payload,
            !.confidence = Get(noaa_result.confidence, Absent, "unknown"),
            !.quality_score = IF noaa_result.confidence = "high"
                              THEN ScoreNoaaHigh ELSE ScoreNoaaLow]
    ELSE IF nasa_result.success
    THEN [merged_data EXCEPT
            !.success = TRUE,
            !.primary_source = "NASA",
            !.payload = nasa_result.payload,
            !.confidence = Get(nasa_result.confidence, Absent, "unknown"),
            !.quality_score = ScoreNasaLow]
    ELSE [merged_data EXCEPT
            !.error = <<"NASA">> \o Get(nasa_result.error, NoError, <<"Unknown error">>)
                      \o <<"NOAA">> \o Get(noaa_result.error, NoError, <<"Unknown error">>)]

merge_sources_legacy(nasa_result, noaa_result) ==
    LET merged_data == [MergedPending EXCEPT !.kind = "dict"]
    IN
    IF nasa_result.success /\ nasa_result.confidence = "high"
    THEN [merged_data EXCEPT
            !.success = TRUE,
            !.primary_source = "NASA",
            !.payload = nasa_result.payload,
            !.confidence = Get(nasa_result.confidence, Absent, "unknown"),
            !.quality_score = ScoreNasaHigh]
    ELSE IF noaa_result.success
    THEN LET chosen == [merged_data EXCEPT
                          !.success = TRUE,
                          !.primary_source = "NOAA",
                          !.fallback_used = TRUE,
                          !.payload = noaa_result.payload,
                          !.confidence = Get(noaa_result.confidence, Absent, "unknown")]
             successful_endpoints == Get(noaa_result.successful_endpoints, None, 0)
             total_endpoints == Get(noaa_result.total_endpoints, None, 1)
         IN IF total_endpoints = 0
            THEN [chosen EXCEPT !.error = <<"Merge error", "division by zero">>]
            ELSE IF noaa_result.confidence = "high"
            THEN [chosen EXCEPT !.quality_score =
                    (ScoreNoaaHigh * successful_endpoints) \div total_endpoints]
            ELSE [chosen EXCEPT !.quality_score =
                    (ScoreNoaaLow * successful_endpoints) \div total_endpoints]
    ELSE IF nasa_result.success
    THEN [merged_data EXCEPT
            !.success = TRUE,
            !.primary_source = "NASA",
            !.fallback_used = FALSE,
            !.payload = nasa_result.payload,
            !.confidence = Get(nasa_result.confidence, Absent, "unknown"),
            !.quality_score = ScoreNasaLow]
    ELSE [merged_data EXCEPT
            !.error = <<"NASA">> \o Get(nasa_result.error, NoError, <<"Unknown error">>)
                      \o <<"NOAA">> \o Get(noaa_result.error, NoError, <<"Unknown error">>),
            !.quality_score = 0]

\* ------------------------------------------------------------------ gather
\* asyncio.gather(*tasks, return_exceptions=True)
return_exceptions == TRUE

\* as gather_ready, but the awaiting coroutine resumes with the first task
\* that completes
gather_ready_first_completed(rs) ==
    \E i \in DOMAIN rs : rs[i].kind # "pending"

\* the awaiting coroutine resumes
gather_ready(rs) ==
    \/ \A i \in DOMAIN rs : rs[i].kind # "pending"
    \/ ~return_exceptions /\ \E i \in DOMAIN rs : rs[i].kind = "exception"

\* the await raises instead of returning the list
gather_raises(rs) ==
    ~return_exceptions /\ \E i \in DOMAIN rs : rs[i].kind = "exception"

\* lines 604-607: an exception object becomes a failure dict
AsDict(r) ==
    IF r.kind = "exception"
    THEN Dict(FALSE, Absent, None, "none", r.error, None, None, None)
    ELSE r

fetch_space_weather_with_fallback(nasa_result, noaa_result) ==
    merge_sources_legacy(AsDict(nasa_result), AsDict(noaa_result))

\* ------------------------------------------------------------ orchestrator
EmptyData == << >>          \* data = {}

\* one turn of the loop "for i, result in enumerate(results)" (lines 465-495)
LoopBody(acc, source_name, result) ==
    IF result.kind = "exception"
    THEN [acc EXCEPT
            !.errors = Append(@, <<source_name>> \o result.error),
            !.ds = IF source_name \in {"USGS", "EMSC", "GFZ"}
                   THEN [@ EXCEPT ![source_name].status = "error",
                                  ![source_name].reliability = 0]
                   ELSE @]
    ELSE IF result.kind = "dict" /\ result.success
    THEN LET acc1 == [acc EXCEPT !.data = (lower(source_name) :> result) @@ @]
         IN IF source_name = "SPACE_WEATHER"
            THEN LET primary_source == result.primary_source
                     acc2 == [acc1 EXCEPT !.quality_scores =
                                [quality_score |-> result.quality_score,
                                 confidence |-> result.confidence,
                                 primary_source |-> primary_source,
                                 fallback_used |-> result.fallback_used]]
                 IN IF primary_source \in {"NASA", "NOAA"}
                    THEN [acc2 EXCEPT
                            !.ds[primary_source].status = "active",
                            !.ds[primary_source].reliability =
                                (result.quality_score * Pct(100)) \div ScoreScale]
                    ELSE acc2
            ELSE acc1
    ELSE IF result.kind = "dict"
    THEN [acc EXCEPT !.errors =
            Append(@, <<source_name>> \o Get(result.error, NoError, <<"Unknown error">>))]
    ELSE [acc EXCEPT !.errors = Append(@, <<source_name, "Unexpected result type">>)]

NoQuality ==
    [quality_score |-> 0, confidence |-> Absent, primary_source |-> Absent,
     fallback_used |-> FALSE]

RECURSIVE Loop(_, _, _)
Loop(acc, rs, i) ==
    IF i > Len(rs) THEN acc
    ELSE Loop(LoopBody(acc, source_names[i], rs[i]), rs, i + 1)

\* the except branch of update_all_sources (lines 514-523): nothing is written
ErrorPath(ds, cache, lu, text) ==
    [ds |-> ds, cached_data |-> cache, last_update |-> lu,
     result |-> [success |-> FALSE,
                 error |-> text,
                 data |-> EmptyData,
                 errors |-> <<text>>,
                 sources_updated |-> 0,
                 total_sources |-> Cardinality(DOMAIN ds)]]

\* as Report, but success means that no source reported an error
Report_success_without_errors(data, errors, quality_scores, ds, t0, t) ==
    [success |-> Len(errors) = 0,
     data |-> data,
     errors |-> errors,
     quality_scores |-> quality_scores,
     sources_updated |-> Cardinality(DOMAIN data),
     total_sources |-> Cardinality(DOMAIN ds),
     processing_time_seconds |-> t - t0,
     update_timestamp |-> t,
     next_update |-> <<t, RefreshMinutes>>]

\* as Report, but sources_updated counts the registry entries that are active
Report_counting_active(data, errors, quality_scores, ds, t0, t) ==
    [success |-> Cardinality(DOMAIN data) > 0,
     data |-> data,
     errors |-> errors,
     quality_scores |-> quality_scores,
     sources_updated |-> Cardinality({s \in DOMAIN ds : ds[s].status = "active"}),
     total_sources |-> Cardinality(DOMAIN ds),
     processing_time_seconds |-> t - t0,
     update_timestamp |-> t,
     next_update |-> <<t, RefreshMinutes>>]

\* the dict returned at lines 502-512
Report(data, errors, quality_scores, ds, t0, t) ==
    [success |-> Cardinality(DOMAIN data) > 0,
     data |-> data,
     errors |-> errors,
     quality_scores |-> quality_scores,
     sources_updated |-> Cardinality(DOMAIN data),
     total_sources |-> Cardinality(DOMAIN ds),
     processing_time_seconds |-> t - t0,
     update_timestamp |-> t,
     next_update |-> <<t, RefreshMinutes>>]

\* lines 459-512: the loop, the cache replacement, the report
NormalPath(ds, rs, t0, t) ==
    LET acc == Loop([data |-> EmptyData, errors |-> << >>,
                     quality_scores |-> NoQuality, ds |-> ds], rs, 1)
    IN [ds |-> acc.ds, cached_data |-> acc.data, last_update |-> t,
        result |-> Report(acc.data, acc.errors, acc.quality_scores, acc.ds, t0, t)]

\* as update_all_sources, but a task that reports failure raises inside the
\* try, so the except branch answers
update_all_sources_raising(ds, cache, lu, rs, t0, t) ==
    IF gather_raises(rs) \/ \E i \in DOMAIN rs : ~rs[i].success
    THEN ErrorPath(ds, cache, lu, <<"failed task">>)
    ELSE NormalPath(ds, rs, t0, t)

\* as update_all_sources, but a refresh that obtained no data keeps the
\* snapshot and the timestamp it found
update_all_sources_keeping_cache(ds, cache, lu, rs, t0, t) ==
    IF gather_raises(rs)
    THEN ErrorPath(ds, cache, lu, <<"gather">>)
    ELSE LET u == NormalPath(ds, rs, t0, t)
         IN IF DOMAIN u.cached_data = {}
            THEN [u EXCEPT !.cached_data = cache, !.last_update = lu]
            ELSE u

\* update_all_sources from the point where the gather has returned or raised:
\* rs is <<usgs, emsc, space_weather, gfz>>, t0 the start_time, t the time now.
\* Gives the service state it leaves and the dict it returns.
update_all_sources(ds, cache, lu, rs, t0, t) ==
    IF gather_raises(rs)
    THEN ErrorPath(ds, cache, lu, <<"gather">>)
    ELSE NormalPath(ds, rs, t0, t)

\* ------------------------------------------------------------------ routes
NoResponse == [status |-> 0, body |-> << >>]

\* POST /sources/refresh: a missing key of the result is a KeyError, which
\* the route turns into HTTP 500
refresh_data_sources(result) ==
    IF {"success", "sources_updated", "total_sources", "processing_time_seconds",
        "update_timestamp", "next_update"} \subseteq DOMAIN result
    THEN [status |-> 200,
          body |-> [success |-> result.success,
                    sources_updated |-> result.sources_updated,
                    total_sources |-> result.total_sources,
                    errors |-> result.errors,
                    processing_time_seconds |-> result.processing_time_seconds,
                    update_timestamp |-> result.update_timestamp,
                    next_auto_refresh |-> result.next_update]]
    ELSE [status |-> 500, body |-> << >>]

\* GET /sources/status
get_data_sources_status ==
    [sources |-> data_sources,
     total_sources |-> Cardinality(DOMAIN data_sources),
     active_sources |-> Cardinality({s \in DOMAIN data_sources :
                                       data_sources[s].status = "active"}),
     last_update |-> last_update]

\* GET /sources/cached
get_cached_data ==
    [has_cached_data |-> DOMAIN cached_data # {},
     cache_age_minutes |-> IF last_update # None
                           THEN (now - last_update) * HoursPerTick * 60
                           ELSE None,
     cached_sources |-> DOMAIN cached_data]

\* ------------------------------------------------------------------ actions
NoRequests == [r \in Refreshers |-> [s \in SourceNames |-> 0]]

\* no connectivity test was asked for
IdleTest ==
    /\ test_pc = 0
    /\ test_results = [s \in SourceNames |-> Pending]
    /\ test_response = NoResponse

\* the ingestor after construction, fetch_usgs_data not called
IdleIngest ==
    /\ ingest_pc = "idle"
    /\ attempt = 0
    /\ trace = << >>
    /\ redis = NoData
    /\ returned = NoData

\* check_quality and ingest_all_sources not called
NoTasks == [s \in {"usgs", "gvp", "noaa"} |-> [kind |-> "pending", value |-> NoData]]

IdleAux ==
    /\ unscored = Pending
    /\ scored = Pending
    /\ all_pc = "idle"
    /\ all_tasks = NoTasks
    /\ all_result = << >>

Init ==
    /\ data_sources = InitSources
    /\ cached_data = EmptyData
    /\ last_update = None
    /\ now = 1
    /\ pc = [r \in Refreshers |-> "idle"]
    /\ results = [r \in Refreshers |-> [s \in SourceNames |-> Pending]]
    /\ merged = [r \in Refreshers |-> MergedPending]
    /\ start_time = [r \in Refreshers |-> None]
    /\ response = [r \in Refreshers |-> NoResponse]
    /\ started = 0
    /\ request_key = [r \in Refreshers |-> NoKey]
    /\ requests = NoRequests
    /\ snapshot_key = NoKey
    /\ IdleTest
    /\ IdleIngest
    /\ IdleAux

\* time passes: a tick is HoursPerTick hours, every request of a refresh has
\* timeout=30.0 seconds, so no tick falls inside a refresh
Tick ==
    /\ now < MaxTime
    /\ \A r \in Refreshers : pc[r] # "gather"
    /\ test_pc = 0
    /\ now' = now + 1
    /\ UNCHANGED <<data_sources, cached_data, last_update, pc, results, merged,
                   start_time, response, started>>
    /\ UNCHANGED <<refresh_vars, test_vars, ingest_vars, aux_vars>>

\* a POST /sources/refresh arrives with the place key: update_all_sources
\* runs up to its await
StartRefreshAt(r, key) ==
    /\ pc[r] \in {"idle", "done"}
    /\ started < MaxRefreshes
    /\ started' = started + 1
    /\ pc' = [pc EXCEPT ![r] = "gather"]
    /\ results' = [results EXCEPT ![r] = [s \in SourceNames |-> Pending]]
    /\ merged' = [merged EXCEPT ![r] = MergedPending]
    /\ start_time' = [start_time EXCEPT ![r] = now]
    /\ response' = [response EXCEPT ![r] = NoResponse]
    /\ request_key' = [request_key EXCEPT ![r] = key]
    /\ requests' = [requests EXCEPT ![r] = [s \in SourceNames |-> 0]]
    /\ UNCHANGED <<data_sources, cached_data, last_update, now, snapshot_key>>
    /\ UNCHANGED <<test_vars, ingest_vars, aux_vars>>

\* a POST /sources/refresh without parameters
StartRefresh(r) == StartRefreshAt(r, HomeKey)

\* an adapter coroutine of request r runs from its response to its return,
\* having made n requests
Adapter(r, name, out, n) ==
    /\ pc[r] = "gather"
    /\ results[r][name].kind = "pending"
    /\ data_sources' = out.ds
    /\ results' = [results EXCEPT ![r][name] = out.result]
    /\ requests' = [requests EXCEPT ![r][name] = n]
    /\ UNCHANGED <<cached_data, last_update, now, pc, merged, start_time,
                   response, started, request_key, snapshot_key>>
    /\ UNCHANGED <<test_vars, ingest_vars, aux_vars>>

FetchUSGS(r, outcomes) ==
    \E o \in outcomes :
        Adapter(r, "USGS", fetch_usgs_earthquake_data(data_sources, o, now),
                client_get_calls("USGS", o))

FetchEMSC(r, outcomes) ==
    \E o \in outcomes :
        Adapter(r, "EMSC", fetch_emsc_earthquake_data(data_sources, o, now),
                client_get_calls("EMSC", o))

FetchGFZ(r, outcomes) ==
    \E o \in outcomes :
        Adapter(r, "GFZ", fetch_gfz_geomagnetic_data(data_sources, o, now),
                client_get_calls("GFZ", o))

FetchNOAA(r, outcomes) ==
    \E o \in outcomes :
        Adapter(r, "NOAA", fetch_noaa_space_weather_data(data_sources, o, now),
                client_get_calls("NOAA", o))

FetchNASA(r, outcomes) ==
    \E o \in outcomes :
        Adapter(r, "NASA", fetch_nasa_space_weather_data(data_sources, o, now),
                client_get_calls("NASA", o))

\* fetch_space_weather_with_fallback resumes after its gather
SpaceWeather(r) ==
    /\ pc[r] = "gather"
    /\ merged[r].kind = "pending"
    /\ gather_ready(<<results[r]["NASA"], results[r]["NOAA"]>>)
    /\ merged' = [merged EXCEPT ![r] =
                    fetch_space_weather_with_fallback(results[r]["NASA"],
                                                      results[r]["NOAA"])]
    /\ UNCHANGED <<data_sources, cached_data, last_update, now, pc, results,
                   start_time, response, started>>
    /\ UNCHANGED <<refresh_vars, test_vars, ingest_vars, aux_vars>>

Tasks(r) == <<results[r]["USGS"], results[r]["EMSC"], merged[r], results[r]["GFZ"]>>

\* update_all_sources resumes after its gather and the route answers
FinishRefresh(r) ==
    /\ pc[r] = "gather"
    /\ gather_ready(Tasks(r))
    /\ LET u == update_all_sources(data_sources, cached_data, last_update,
                                   Tasks(r), start_time[r], now)
       IN /\ data_sources' = u.ds
          /\ cached_data' = u.cached_data
          /\ last_update' = u.last_update
          /\ response' = [response EXCEPT ![r] = refresh_data_sources(u.result)]
    /\ pc' = [pc EXCEPT ![r] = "done"]
    /\ snapshot_key' = IF gather_raises(Tasks(r)) THEN snapshot_key
                       ELSE request_key[r]
    /\ UNCHANGED <<now, results, merged, start_time, started, request_key,
                   requests>>
    /\ UNCHANGED <<test_vars, ingest_vars, aux_vars>>

\* Spec: the requests are served one at a time (a request arrives after the
\* one before it was answered); every adapter outcome can happen.
OneAtATime == {"r1"}

Next ==
    \/ Tick
    \/ \E r \in OneAtATime :
        \/ StartRefresh(r)
        \/ FetchUSGS(r, SimpleOutcomes)
        \/ FetchEMSC(r, SimpleOutcomes)
        \/ FetchNOAA(r, NoaaOutcomes)
        \/ FetchGFZ(r, SimpleOutcomes)
        \/ FetchNASA(r, NasaOutcomes)
        \/ SpaceWeather(r)
        \/ FinishRefresh(r)

Spec == Init /\ [][Next]_vars

\* SpecRace: two requests in flight on the same service (the route is async:
\* a second POST runs while the first awaits its gather).  The adapters'
\* outcomes are the plain ones: answered in full, or failed.
PlainNoaa == {o \in NoaaOutcomes : o.kind = "endpoints" /\ o.n \in {0, NumEndpoints}}
PlainNasa == {"ok", "fail"}

NextRace ==
    \E r \in Refreshers :
        \/ StartRefresh(r)
        \/ FetchUSGS(r, SimpleOutcomes)
        \/ FetchEMSC(r, SimpleOutcomes)
        \/ FetchNOAA(r, PlainNoaa)
        \/ FetchGFZ(r, SimpleOutcomes)
        \/ FetchNASA(r, PlainNasa)
        \/ SpaceWeather(r)
        \/ FinishRefresh(r)

SpecRace == Init /\ [][NextRace]_vars

\* SpecMerge: the fallback merger on every pair of inputs.  The request r1 is
\* in its gather, its NASA and NOAA coroutines have handed over any dict or
\* exception, and fetch_space_weather_with_fallback resumes.
Confidences == {"high", "low", "unknown", "none", Absent}

NasaInputs ==
    { Dict(su, "NASA", 1, c, e, None, None, 1) :
        su \in BOOLEAN, c \in Confidences, e \in {NoError, <<"NASA", "http">>} }
    \cup { Raised("NASA", "boom") }

NoaaInputs ==
    { Dict(su, "NOAA", 1, c, e, se, te, 1) :
        su \in BOOLEAN, c \in Confidences, e \in {NoError, <<"NOAA", "http">>},
        se \in 0..NumEndpoints, te \in {NumEndpoints, NumEndpoints + 1} }
    \cup { Dict(su, "NOAA", 1, c, e, None, None, 1) :
             su \in BOOLEAN, c \in Confidences, e \in {NoError, <<"NOAA", "http">>} }
    \cup { Raised("NOAA", "boom") }

InitMerge ==
    /\ data_sources = InitSources
    /\ cached_data = EmptyData
    /\ last_update = None
    /\ now = 1
    /\ pc = [r \in Refreshers |-> IF r = "r1" THEN "gather" ELSE "idle"]
    /\ \E na \in NasaInputs, no \in NoaaInputs :
         results = [r \in Refreshers |->
                      [s \in SourceNames |->
                         IF r = "r1" /\ s = "NASA" THEN na
                         ELSE IF r = "r1" /\ s = "NOAA" THEN no
                         ELSE Pending]]
    /\ merged = [r \in Refreshers |-> MergedPending]
    /\ start_time = [r \in Refreshers |-> IF r = "r1" THEN 1 ELSE None]
    /\ response = [r \in Refreshers |-> NoResponse]
    /\ started = 1
    /\ request_key = [r \in Refreshers |-> IF r = "r1" THEN HomeKey ELSE NoKey]
    /\ requests = NoRequests
    /\ snapshot_key = NoKey
    /\ IdleTest
    /\ IdleIngest
    /\ IdleAux

NextMerge == SpaceWeather("r1")

SpecMerge == InitMerge /\ [][NextMerge]_vars

\* SpecKeys: refreshes for two places, one at a time, plain outcomes.
NextKeys ==
    \E r \in OneAtATime :
        \/ \E key \in Keys : StartRefreshAt(r, key)
        \/ FetchUSGS(r, SimpleOutcomes)
        \/ FetchEMSC(r, SimpleOutcomes)
        \/ FetchNOAA(r, PlainNoaa)
        \/ FetchGFZ(r, SimpleOutcomes)
        \/ FetchNASA(r, PlainNasa)
        \/ SpaceWeather(r)
        \/ FinishRefresh(r)

SpecKeys == Init /\ [][NextKeys]_vars

\* ------------------------------------------------- GET /sources/test-connectivity
\* the adapters in the order in which the route awaits them
test_order == <<"USGS", "EMSC", "NOAA", "GFZ", "NASA">>

\* the answer built from test_results
test_data_source_connectivity(tr) ==
    LET successful_tests == Cardinality({s \in DOMAIN tr : tr[s].success})
    IN [status |-> 200,
        body |-> [total_sources_tested |-> Cardinality(DOMAIN tr),
                  successful_connections |-> successful_tests,
                  overall_connectivity |->
                      IF successful_tests >= 4 THEN "good"
                      ELSE IF successful_tests >= 2 THEN "fair"
                      ELSE "poor"]]

\* the route is called and runs up to its first await
StartTest ==
    /\ test_pc = 0
    /\ test_pc' = 1
    /\ test_results' = [s \in SourceNames |-> Pending]
    /\ test_response' = NoResponse
    /\ UNCHANGED <<data_sources, cached_data, last_update, now, pc, results,
                   merged, start_time, response, started>>
    /\ UNCHANGED <<refresh_vars, ingest_vars, aux_vars>>

\* the i-th awaited adapter returns out; after the last one the route answers
\* and its local test_results is gone
TestAwait(i, out) ==
    /\ test_pc = i
    /\ data_sources' = out.ds
    /\ LET tr == [test_results EXCEPT ![test_order[i]] = out.result]
       IN IF i = Len(test_order)
          THEN /\ test_pc' = 0
               /\ test_response' = test_data_source_connectivity(tr)
               /\ test_results' = [s \in SourceNames |-> Pending]
          ELSE /\ test_pc' = i + 1
               /\ test_results' = tr
               /\ UNCHANGED test_response
    /\ UNCHANGED <<cached_data, last_update, now, pc, results, merged,
                   start_time, response, started>>
    /\ UNCHANGED <<refresh_vars, ingest_vars, aux_vars>>

TestUSGS == \E o \in SimpleOutcomes :
    TestAwait(1, fetch_usgs_earthquake_data(data_sources, o, now))
TestEMSC == \E o \in SimpleOutcomes :
    TestAwait(2, fetch_emsc_earthquake_data(data_sources, o, now))
TestNOAA == \E o \in PlainNoaa :
    TestAwait(3, fetch_noaa_space_weather_data(data_sources, o, now))
TestGFZ == \E o \in SimpleOutcomes :
    TestAwait(4, fetch_gfz_geomagnetic_data(data_sources, o, now))
TestNASA == \E o \in PlainNasa :
    TestAwait(5, fetch_nasa_space_weather_data(data_sources, o, now))

\* SpecOps: every operation that reaches the registry, in any sequence:
\* refreshes and connectivity tests, one operation at a time.
NextOps ==
    \/ (\A r \in Refreshers : pc[r] # "gather") /\ StartTest
    \/ TestUSGS
    \/ TestEMSC
    \/ TestNOAA
    \/ TestGFZ
    \/ TestNASA
    \/ \E r \in OneAtATime :
        \/ test_pc = 0 /\ StartRefresh(r)
        \/ FetchUSGS(r, SimpleOutcomes)
        \/ FetchEMSC(r, SimpleOutcomes)
        \/ FetchNOAA(r, PlainNoaa)
        \/ FetchGFZ(r, SimpleOutcomes)
        \/ FetchNASA(r, PlainNasa)
        \/ SpaceWeather(r)
        \/ FinishRefresh(r)

SpecOps == Init /\ [][NextOps]_vars

\* ------------------------------------- VolcanicDataIngestor.fetch_usgs_data
max_retries == 3
UsgsEndpoints == 1..3       \* seismic, deformation, earthquake query

\* what session.get gives for an endpoint:
\*   "data"        status 200 and a non-empty JSON object
\*   "timeout"     the request raised (timeout, connection, DNS)
\*   "bad_request" an answer whose status is not 200 (malformed request)
\*   "unreached"   the session could not be opened, no request was made
EndpointOutcomes == {"data", "timeout", "bad_request"}

\* an attempt: what each endpoint gave, and what raised outside the
\* per-endpoint try ("session": aiohttp.ClientSession, "setex": the redis
\* write, which runs only when some endpoint gave data)
AttemptOutcomes ==
    { o \in [endpoints : [UsgsEndpoints -> EndpointOutcomes],
             raises : {"none", "setex"}] :
        o.raises = "setex" => \E e \in UsgsEndpoints : o.endpoints[e] = "data" }
    \cup { [endpoints |-> [e \in UsgsEndpoints |-> "unreached"],
            raises |-> "session"] }

\* combined_data after the loop over the endpoints: the data of the endpoints
\* that answered, as obtained in attempt n
combined_data(n, o) ==
    { <<n, e>> : e \in { x \in UsgsEndpoints : o.endpoints[x] = "data" } }

\* a value written by an earlier call
OldData == { <<None, 1>> }

\* _get_cached_data: the redis value, or {} when there is none or the read
\* raised
_get_cached_data(value, read_ok) == IF read_ok THEN value ELSE NoData

\* trace events
AttemptEvent(n, o) == [ev |-> "attempt", n |-> n, outcome |-> o, seconds |-> 0]
SleepEvent(n) == [ev |-> "sleep", n |-> n, outcome |-> "none", seconds |-> 2 ^ n]

\* fetch_usgs_data is called
CallFetchUsgs ==
    /\ ingest_pc = "idle"
    /\ ingest_pc' = "attempt"
    /\ attempt' = 0
    /\ UNCHANGED <<trace, redis, returned>>
    /\ UNCHANGED <<data_sources, cached_data, last_update, now, pc, results,
                   merged, start_time, response, started>>
    /\ UNCHANGED <<refresh_vars, test_vars, aux_vars>>

\* one turn of "for attempt in range(max_retries)", up to the return, the
\* sleep, or the start of the next turn
Attempt(o, read_ok) ==
    /\ ingest_pc = "attempt"
    /\ LET data == combined_data(attempt, o)
       IN IF o.raises = "none" /\ data # NoData
          THEN \* lines 46-49: cache it and return it
               /\ redis' = data
               /\ returned' = data
               /\ ingest_pc' = "returned"
               /\ attempt' = attempt
               /\ trace' = Append(trace, AttemptEvent(attempt, o))
          ELSE IF o.raises # "none"
          THEN \* lines 51-55: the except branch
               IF attempt = max_retries - 1
               THEN /\ returned' = _get_cached_data(redis, read_ok)
                    /\ ingest_pc' = "returned"
                    /\ trace' = Append(trace, AttemptEvent(attempt, o))
                    /\ UNCHANGED <<redis, attempt>>
               ELSE /\ ingest_pc' = "sleep"
                    /\ trace' = trace \o <<AttemptEvent(attempt, o),
                                           SleepEvent(attempt)>>
                    /\ UNCHANGED <<redis, attempt, returned>>
          ELSE \* no data and nothing raised: the loop goes on, line 57 ends it
               IF attempt = max_retries - 1
               THEN /\ returned' = NoData
                    /\ ingest_pc' = "returned"
                    /\ trace' = Append(trace, AttemptEvent(attempt, o))
                    /\ UNCHANGED <<redis, attempt>>
               ELSE /\ attempt' = attempt + 1
                    /\ trace' = Append(trace, AttemptEvent(attempt, o))
                    /\ UNCHANGED <<redis, ingest_pc, returned>>
    /\ UNCHANGED <<data_sources, cached_data, last_update, now, pc, results,
                   merged, start_time, response, started>>
    /\ UNCHANGED <<refresh_vars, test_vars, aux_vars>>

\* asyncio.sleep(2 ** attempt) is over: the next turn of the loop starts
Wake ==
    /\ ingest_pc = "sleep"
    /\ ingest_pc' = "attempt"
    /\ attempt' = attempt + 1
    /\ UNCHANGED <<trace, redis, returned>>
    /\ UNCHANGED <<data_sources, cached_data, last_update, now, pc, results,
                   merged, start_time, response, started>>
    /\ UNCHANGED <<refresh_vars, test_vars, aux_vars>>

\* SpecIngest: one call of fetch_usgs_data, with or without a value in redis
InitIngest ==
    /\ data_sources = InitSources
    /\ cached_data = EmptyData
    /\ last_update = None
    /\ now = 1
    /\ pc = [r \in Refreshers |-> "idle"]
    /\ results = [r \in Refreshers |-> [s \in SourceNames |-> Pending]]
    /\ merged = [r \in Refreshers |-> MergedPending]
    /\ start_time = [r \in Refreshers |-> None]
    /\ response = [r \in Refreshers |-> NoResponse]
    /\ started = 0
    /\ request_key = [r \in Refreshers |-> NoKey]
    /\ requests = NoRequests
    /\ snapshot_key = NoKey
    /\ IdleTest
    /\ ingest_pc = "idle"
    /\ attempt = 0
    /\ trace = << >>
    /\ redis \in {NoData, OldData}
    /\ returned = NoData
    /\ IdleAux

NextIngest ==
    \/ CallFetchUsgs
    \/ \E o \in AttemptOutcomes, read_ok \in BOOLEAN : Attempt(o, read_ok)
    \/ Wake

SpecIngest == InitIngest /\ [][NextIngest]_vars

\* ------------------------------------------------ check_quality on its own
QualityClock == 4           \* times 0..QualityClock

\* the fetch_timestamp values a dict can carry
Timestamps ==
    {None, Unreadable} \cup (0..QualityClock)
    \cup { AwareFrom + n : n \in 0..QualityClock }

\* the dicts given to check_quality: with or without an earlier label
QualityInputs ==
    { Dict(TRUE, src, 1, c, NoError, None, None, ts) :
        src \in {"NASA", "NOAA"}, c \in {Absent, "low"}, ts \in Timestamps }

\* check_quality(data) is called at time now
ScoreQuality ==
    /\ scored.kind = "pending"
    /\ scored' = check_quality(unscored, now)
    /\ UNCHANGED <<unscored, all_vars>>
    /\ UNCHANGED <<data_sources, cached_data, last_update, now, pc, results,
                   merged, start_time, response, started>>
    /\ UNCHANGED <<refresh_vars, test_vars, ingest_vars>>

\* SpecQuality: check_quality on every input at every time
InitQuality ==
    /\ data_sources = InitSources
    /\ cached_data = EmptyData
    /\ last_update = None
    /\ now \in 0..QualityClock
    /\ pc = [r \in Refreshers |-> "idle"]
    /\ results = [r \in Refreshers |-> [s \in SourceNames |-> Pending]]
    /\ merged = [r \in Refreshers |-> MergedPending]
    /\ start_time = [r \in Refreshers |-> None]
    /\ response = [r \in Refreshers |-> NoResponse]
    /\ started = 0
    /\ request_key = [r \in Refreshers |-> NoKey]
    /\ requests = NoRequests
    /\ snapshot_key = NoKey
    /\ IdleTest
    /\ IdleIngest
    /\ unscored \in QualityInputs
    /\ scored = Pending
    /\ all_pc = "idle"
    /\ all_tasks = NoTasks
    /\ all_result = << >>

NextQuality == ScoreQuality

SpecQuality == InitQuality /\ [][NextQuality]_vars

\* ---------------------------------- VolcanicDataIngestor.ingest_all_sources
volcano_id == "kilauea"
IngestSources == {"usgs", "gvp", "noaa"}

\* what a fetch hands over to the gather: a value (empty or not) or, with
\* return_exceptions=True, an exception object
SomeData == { <<0, 1>> }
TaskOutcomes ==
    [kind : {"value"}, value : {NoData, SomeData}]
    \cup [kind : {"exception"}, value : {NoData}]

\* lines 232-237: an exception object becomes {} or []
OrEmpty(task) == IF task.kind = "exception" THEN NoData ELSE task.value

\* lines 239-260: the dict returned; the redis write is inside the try
ingest_all_sources(tasks, setex_ok, t) ==
    IF setex_ok
    THEN [volcano_id |-> volcano_id,
          timestamp |-> t,
          usgs |-> OrEmpty(tasks["usgs"]),
          gvp |-> OrEmpty(tasks["gvp"]),
          noaa |-> OrEmpty(tasks["noaa"]),
          status |-> "success"]
    ELSE [volcano_id |-> volcano_id,
          timestamp |-> t,
          status |-> "error",
          error |-> "setex"]

\* ingest_all_sources is called and runs up to its gather
CallIngestAll ==
    /\ all_pc = "idle"
    /\ all_pc' = "gather"
    /\ UNCHANGED <<all_tasks, all_result, quality_vars>>
    /\ UNCHANGED <<data_sources, cached_data, last_update, now, pc, results,
                   merged, start_time, response, started>>
    /\ UNCHANGED <<refresh_vars, test_vars, ingest_vars>>

\* one of the three fetches ends, with a value or by raising
TaskEnds(name, out) ==
    /\ all_pc = "gather"
    /\ all_tasks[name].kind = "pending"
    /\ all_tasks' = [all_tasks EXCEPT ![name] = out]
    /\ UNCHANGED <<all_pc, all_result, quality_vars>>
    /\ UNCHANGED <<data_sources, cached_data, last_update, now, pc, results,
                   merged, start_time, response, started>>
    /\ UNCHANGED <<refresh_vars, test_vars, ingest_vars>>

\* the gather returns and ingest_all_sources runs to its return
FinishIngestAll(setex_ok) ==
    /\ all_pc = "gather"
    /\ \A name \in IngestSources : all_tasks[name].kind # "pending"
    /\ all_result' = ingest_all_sources(all_tasks, setex_ok, now)
    /\ all_pc' = "returned"
    /\ UNCHANGED <<all_tasks, quality_vars>>
    /\ UNCHANGED <<data_sources, cached_data, last_update, now, pc, results,
                   merged, start_time, response, started>>
    /\ UNCHANGED <<refresh_vars, test_vars, ingest_vars>>

NextIngestAll ==
    \/ CallIngestAll
    \/ \E name \in IngestSources, out \in TaskOutcomes : TaskEnds(name, out)
    \/ \E setex_ok \in BOOLEAN : FinishIngestAll(setex_ok)

SpecIngestAll == Init /\ [][NextIngestAll]_vars

\* ================================================================== claims
\* what a request's adapters did in its refresh
Succeeded(r, s) == results[r][s].kind = "dict" /\ results[r][s].success
Failed(r, s) == results[r][s].kind # "pending" /\ ~results[r][s].success
AllRan(r) == \A s \in SourceNames : results[r][s].kind # "pending"
NumSucceeded(r) == Cardinality({s \in SourceNames : Succeeded(r, s)})
NumFailed(r) == Cardinality({s \in SourceNames : Failed(r, s)})
\* the step in which request r's refresh completes
Completes(r) == pc[r] = "gather" /\ pc'[r] = "done"
Answered(r) == pc[r] = "done" /\ response[r].status = 200

\* ---- C1 ----------------------------------------------------------------
\* C1: a refresh in which every source fails leaves the cache as it was: the
\* cached sources are unchanged and has_cached_data stays true.  Stated of
\* the step that completes such a refresh while the cache holds data.
C1_AllFailKeepsSnapshot ==
    [][\A r \in Refreshers :
         (Completes(r) /\ NumFailed(r) = 5 /\ get_cached_data.has_cached_data)
         => /\ cached_data' = cached_data
            /\ get_cached_data'.has_cached_data]_vars

\* ---- C2 ----------------------------------------------------------------
ReportFields ==
    {"success", "sources_updated", "total_sources", "errors",
     "processing_time_seconds", "update_timestamp", "next_auto_refresh"}

\* C2: whatever the adapters' outcomes, the route answers a refresh with
\* status 200 and a report that has all seven fields; no outcome turns into
\* an exception or an HTTP error.
C2_AlwaysAReport ==
    \A r \in Refreshers :
        pc[r] = "done" =>
            /\ response[r].status = 200
            /\ DOMAIN response[r].body = ReportFields

\* witness: a refresh answered after one adapter failed by exception (USGS),
\* one returned a failure result without any exception (NOAA, no endpoint
\* with data), NASA failed on both answers, and one succeeded (GFZ)
C2_Witness ==
    \E r \in Refreshers :
        /\ Answered(r)
        /\ Failed(r, "USGS")
        /\ Failed(r, "NOAA") /\ results[r]["NOAA"].error = NoError
        /\ results[r]["NASA"].error = <<"NASA", "no spacecraft">>
        /\ Succeeded(r, "GFZ")

\* ---- C3 ----------------------------------------------------------------
\* C3: in every report sources_updated equals the number of the five sources
\* whose fetch succeeded in that refresh.
C3_UpdatedCountsSources ==
    \A r \in Refreshers :
        Answered(r) => response[r].body.sources_updated = NumSucceeded(r)

\* ---- C4 ----------------------------------------------------------------
\* C4: in every report errors has one entry per failing source; with three
\* sources succeeding and two failing the report has sources_updated = 3,
\* two errors and success = true, whichever two failed.
C4_ErrorPerFailingSource ==
    \A r \in Refreshers :
        Answered(r) =>
            /\ Len(response[r].body.errors) = NumFailed(r)
            /\ (NumSucceeded(r) = 3 /\ NumFailed(r) = 2) =>
                 /\ response[r].body.sources_updated = 3
                 /\ Len(response[r].body.errors) = 2
                 /\ response[r].body.success

\* ---- C5 ----------------------------------------------------------------
\* C5: success is true iff at least one of the five sources fetched
\* successfully in that refresh, iff sources_updated > 0; false iff all failed.
C5_SuccessIffAnySource ==
    \A r \in Refreshers :
        Answered(r) =>
            /\ response[r].body.success <=> (\E s \in SourceNames : Succeeded(r, s))
            /\ response[r].body.success <=> (response[r].body.sources_updated > 0)
            /\ ~response[r].body.success <=> (NumFailed(r) = 5)

\* witness: a report with success = true where the only source that
\* succeeded is the fallback provider, with one endpoint of three
C5_Witness ==
    \E r \in Refreshers :
        /\ Answered(r)
        /\ response[r].body.success
        /\ {s \in SourceNames : Succeeded(r, s)} = {"NOAA"}
        /\ results[r]["NOAA"].successful_endpoints = 1

\* ---- C6 ----------------------------------------------------------------
\* C6: when a refresh completes, each source's registry entry reflects that
\* source's fetch in that refresh: succeeded => active with reliability > 0,
\* failed => error with reliability 0.
C6_RegistryReflectsOutcome ==
    [][\A r \in Refreshers :
         Completes(r) =>
            \A s \in SourceNames :
               /\ Succeeded(r, s) =>
                    /\ data_sources'[s].status = "active"
                    /\ data_sources'[s].reliability > 0
               /\ Failed(r, s) =>
                    /\ data_sources'[s].status = "error"
                    /\ data_sources'[s].reliability = 0]_vars

\* ---- C7 ----------------------------------------------------------------
\* the pair given to the merger by request r1, and what the merger returned
Primary == AsDict(results["r1"]["NASA"])
Secondary == AsDict(results["r1"]["NOAA"])
MergedOut == merged["r1"]
PrimaryNotGood == ~Primary.success \/ Primary.confidence # "high"

\* C7 as stated: fallback_used is true iff the primary failed or its
\* confidence is not high.
C7_FallbackIffPrimaryNotGood ==
    MergedOut.kind = "dict" => (MergedOut.fallback_used <=> PrimaryNotGood)

\* C7 as amended: fallback_used is true iff the primary failed or its
\* confidence is not high, and the secondary succeeded.
C7_FallbackIffSecondaryTaken ==
    MergedOut.kind = "dict" =>
        (MergedOut.fallback_used <=> (PrimaryNotGood /\ Secondary.success))

\* witness: the primary succeeded with low confidence, the secondary
\* succeeded, and the merger reports the fallback
C7_Witness ==
    /\ MergedOut.kind = "dict"
    /\ Primary.success /\ Primary.confidence = "low"
    /\ Secondary.success
    /\ MergedOut.fallback_used

\* ---- C8 ----------------------------------------------------------------
\* the first rule of the precedence that applies to the pair
FirstRule ==
    IF Primary.success /\ Primary.confidence = "high" THEN 1
    ELSE IF Secondary.success THEN 2
    ELSE IF Primary.success THEN 3
    ELSE 4

ErrorOf(d) == IF d.error = NoError THEN <<"Unknown error">> ELSE d.error

\* C8: success, chosen provider and fallback_used are those of the first
\* rule that applies; when none of the first three applies the result is a
\* failure whose error text holds both providers' errors.
C8_FixedPrecedence ==
    MergedOut.kind = "dict" =>
        /\ MergedOut.success <=> (FirstRule # 4)
        /\ MergedOut.primary_source =
             (CASE FirstRule \in {1, 3} -> "NASA"
                [] FirstRule = 2 -> "NOAA"
                [] FirstRule = 4 -> Absent)
        /\ MergedOut.fallback_used <=> (FirstRule = 2)
        /\ FirstRule = 4 =>
             MergedOut.error =
                <<"NASA">> \o ErrorOf(Primary) \o <<"NOAA">> \o ErrorOf(Secondary)

\* witness: the third rule is the one applied (primary succeeded with low
\* confidence, secondary failed)
C8_Witness ==
    /\ MergedOut.kind = "dict"
    /\ FirstRule = 3
    /\ Primary.confidence = "low"
    /\ MergedOut.primary_source = "NASA"
    /\ ~MergedOut.fallback_used

\* ---- C9 ----------------------------------------------------------------
\* C9 as stated: the merge, the cache replacement and the report happen only
\* after all five adapters of the refresh have completed.
C9_AllBeforeMergeAndReport ==
    \A r \in Refreshers :
        (merged[r].kind # "pending" \/ pc[r] = "done") => AllRan(r)

\* C9 as amended: no adapter's result is touched by another adapter's
\* completion; the fallback merge happens only after both space-weather
\* adapters (NASA, NOAA) have completed; the cache replacement and the
\* report happen only after all five adapters and the merge have completed.
C9_MergeAfterItsTwoReportAfterAll ==
    [][/\ \A r \in Refreshers :
            /\ (merged[r].kind = "pending" /\ merged'[r].kind # "pending") =>
                 /\ results[r]["NASA"].kind # "pending"
                 /\ results[r]["NOAA"].kind # "pending"
            /\ Completes(r) => (AllRan(r) /\ merged[r].kind # "pending")
            /\ response'[r].status # 0 => (AllRan(r)' /\ pc'[r] = "done")
            /\ \A s \in SourceNames :
                 (pc[r] = "gather" /\ pc'[r] = "gather"
                  /\ results[r][s].kind # "pending") =>
                     results'[r][s] = results[r][s]
       /\ (cached_data' # cached_data \/ last_update' # last_update) =>
            \E r \in Refreshers : Completes(r) /\ AllRan(r)]_vars

\* witness: a refresh answered although USGS and NASA failed: EMSC, GFZ and
\* NOAA completed with data and the merge took NOAA
C9_Witness ==
    \E r \in Refreshers :
        /\ Answered(r)
        /\ Failed(r, "USGS") /\ Failed(r, "NASA")
        /\ Succeeded(r, "EMSC") /\ Succeeded(r, "GFZ") /\ Succeeded(r, "NOAA")
        /\ merged[r].primary_source = "NOAA"
        /\ DOMAIN cached_data = {"emsc", "space_weather", "gfz"}

\* ---- C10 ---------------------------------------------------------------
\* the outcome of an adapter, read back from the dict it returned
OutcomeOf(d) == IF d.success THEN "ok" ELSE "fail"
NoaaOutcomeOf(d) ==
    IF d.successful_endpoints = None THEN [kind |-> "fail", n |-> 0]
    ELSE [kind |-> "endpoints", n |-> d.successful_endpoints]

\* the service state left by running request r's refresh alone from st
RunAlone(st, r) ==
    LET d1 == fetch_usgs_earthquake_data(st.ds, OutcomeOf(results[r]["USGS"]), now).ds
        d2 == fetch_emsc_earthquake_data(d1, OutcomeOf(results[r]["EMSC"]), now).ds
        d3 == fetch_nasa_space_weather_data(d2, OutcomeOf(results[r]["NASA"]), now).ds
        d4 == fetch_noaa_space_weather_data(d3, NoaaOutcomeOf(results[r]["NOAA"]), now).ds
        d5 == fetch_gfz_geomagnetic_data(d4, OutcomeOf(results[r]["GFZ"]), now).ds
        u == update_all_sources(d5, st.cached_data, st.last_update, Tasks(r),
                                start_time[r], now)
    IN [ds |-> u.ds, cached_data |-> u.cached_data, last_update |-> u.last_update]

InitService == [ds |-> InitSources, cached_data |-> EmptyData, last_update |-> None]

\* C10: when the two requests have both been answered, the registry and the
\* cached snapshot are those of running the two refreshes one after the
\* other in some order.
C10_Serialized ==
    (started = 2 /\ \A r \in Refreshers : pc[r] = "done") =>
        \E a, b \in Refreshers :
            /\ a # b
            /\ [ds |-> data_sources, cached_data |-> cached_data,
                last_update |-> last_update]
               = RunAlone(RunAlone(InitService, a), b)

\* ---- C11 ---------------------------------------------------------------
\* C11: every adapter returns a result for every outcome and never raises;
\* every failure is a result with success = false that carries an error text.
C11_FailureCarriesError ==
    \A r \in Refreshers : \A s \in SourceNames :
        results[r][s].kind # "pending" =>
            /\ results[r][s].kind = "dict"
            /\ ~results[r][s].success => results[r][s].error # NoError

\* ---- C12 ---------------------------------------------------------------
\* C12: a refresh in which all sources fail does not make the cache look
\* fresh: the cache_age_minutes reported right after it is at least the one
\* reported right before it.
C12_AllFailAgeNotYounger ==
    [][\A r \in Refreshers :
         (Completes(r) /\ NumFailed(r) = 5 /\ last_update # None)
         => /\ get_cached_data'.cache_age_minutes # None
            /\ get_cached_data'.cache_age_minutes
                 >= get_cached_data.cache_age_minutes]_vars

\* ---- C13 ---------------------------------------------------------------
\* C13: the cache is keyed by (location, radius): a refresh for one key
\* leaves the snapshot that was stored for another key, and its timestamp,
\* as they were, so that it is still what a reader of that key gets.
C13_OtherKeyKept ==
    [][\A r \in Refreshers :
         (Completes(r) /\ snapshot_key # NoKey /\ snapshot_key # request_key[r])
         => /\ cached_data' = cached_data
            /\ last_update' = last_update]_vars

\* ---- C14 ---------------------------------------------------------------
\* a fetch of source s returns in this step, to a refresh or to the
\* connectivity test
FetchReturns(s) ==
    \/ \E r \in Refreshers :
         results[r][s].kind = "pending" /\ results'[r][s].kind # "pending"
    \/ test_pc # 0 /\ test_order[test_pc] = s /\ test_pc' # test_pc

\* C14: every status starts as unknown, leaves unknown at that source's
\* first fetch and at no other step, and from then on is active or error;
\* the registry always holds exactly the five sources.
C14_StatusNeverBackToUnknown ==
    /\ \A s \in SourceNames : data_sources[s].status = "unknown"
    /\ [][/\ DOMAIN data_sources' = SourceNames
          /\ \A s \in SourceNames :
               /\ data_sources'[s].status \in {"unknown", "active", "error"}
               /\ data_sources[s].status # "unknown" =>
                    data_sources'[s].status \in {"active", "error"}
               /\ (data_sources[s].status = "unknown"
                   /\ data_sources'[s].status # "unknown") => FetchReturns(s)
               /\ FetchReturns(s) =>
                    data_sources'[s].status \in {"active", "error"}]_vars

\* witness: after a refresh and a connectivity test, USGS is in error after
\* having been active, and EMSC is active
C14_Witness ==
    /\ started > 0
    /\ test_response.status = 200
    /\ test_pc = 0
    /\ data_sources["USGS"].status = "error"
    /\ data_sources["USGS"].last_update # None
    /\ data_sources["EMSC"].status = "active"

\* ---- C15 ---------------------------------------------------------------
\* C15: when the merger selects NOAA and NOAA reports its endpoint counts,
\* the merged score is NOAA's base score (0.8 when its confidence is high,
\* 0.6 otherwise) times successful_endpoints / total_endpoints; a selected
\* NASA keeps its base score (0.9 with high confidence, 0.4 otherwise).
C15_ScoreDiscountedByEndpoints ==
    (MergedOut.kind = "dict" /\ MergedOut.success) =>
        /\ (MergedOut.primary_source = "NOAA"
            /\ Secondary.successful_endpoints # None) =>
              MergedOut.quality_score * Secondary.total_endpoints
                = (IF Secondary.confidence = "high"
                   THEN ScoreNoaaHigh ELSE ScoreNoaaLow)
                  * Secondary.successful_endpoints
        /\ MergedOut.primary_source = "NASA" =>
              MergedOut.quality_score
                = (IF Primary.confidence = "high"
                   THEN ScoreNasaHigh ELSE ScoreNasaLow)

\* witness: NASA failed, NOAA answered 3 of 4 sub-requests with high
\* confidence, and the merged score is 0.75 of 0.8
C15_Witness ==
    /\ MergedOut.kind = "dict"
    /\ ~Primary.success
    /\ MergedOut.primary_source = "NOAA"
    /\ Secondary.confidence = "high"
    /\ Secondary.successful_endpoints = 3
    /\ Secondary.total_endpoints = 4
    /\ MergedOut.quality_score * 4 = ScoreNoaaHigh * 3

\* ---- C16 ---------------------------------------------------------------
\* C16: NASA makes at most two requests; when its first answer is the
\* failure text and the retry succeeds, NASA succeeds with two requests and
\* the merged result uses NASA with fallback_used = false whatever NOAA
\* returned; when the retry gives the failure text too, NASA has failed
\* with two requests.
C16_RetryOnceThenPrimary ==
    \A r \in Refreshers :
        /\ requests[r]["NASA"] <= 2
        /\ (Succeeded(r, "NASA") /\ requests[r]["NASA"] = 2
            /\ merged[r].kind = "dict") =>
              /\ merged[r].success
              /\ merged[r].primary_source = "NASA"
              /\ ~merged[r].fallback_used
        /\ results[r]["NASA"].error = <<"NASA", "no spacecraft">> =>
              /\ requests[r]["NASA"] = 2
              /\ Failed(r, "NASA")

\* witness: NASA succeeded on its retry, NOAA succeeded on all endpoints,
\* and the merged result uses NASA
C16_Witness ==
    \E r \in Refreshers :
        /\ Succeeded(r, "NASA") /\ requests[r]["NASA"] = 2
        /\ Succeeded(r, "NOAA")
        /\ results[r]["NOAA"].successful_endpoints = NumEndpoints
        /\ merged[r].kind = "dict"
        /\ merged[r].primary_source = "NASA"
        /\ ~merged[r].fallback_used

\* ---- C17 ---------------------------------------------------------------
\* the attempts fetch_usgs_data has made, and whether one obtained data
IsAttempt(e) == e.ev = "attempt"
Attempts == SelectSeq(trace, IsAttempt)
Obtained(e) == combined_data(e.n, e.outcome) # NoData

\* C17: fetch_usgs_data makes at most 3 attempts; it returns the data of the
\* first attempt that obtains any and makes no attempt after it; when no
\* attempt obtains data it returns after the third attempt.
C17_FirstDataEndsTheCall ==
    ingest_pc = "returned" =>
        /\ Len(Attempts) <= max_retries
        /\ \A i \in 1..Len(Attempts) :
             (Obtained(Attempts[i]) /\ \A j \in 1..(i - 1) : ~Obtained(Attempts[j]))
             => /\ returned = combined_data(Attempts[i].n, Attempts[i].outcome)
                /\ Len(Attempts) = i
        /\ (\A i \in 1..Len(Attempts) : ~Obtained(Attempts[i]))
             => Len(Attempts) = max_retries

\* ---- C18 ---------------------------------------------------------------
\* an attempt that met a transient failure: a request that raised, or an
\* exception of the session or of redis
Transient(e) ==
    \/ e.outcome.raises # "none"
    \/ \E x \in UsgsEndpoints : e.outcome.endpoints[x] = "timeout"

\* C18: an attempt is followed by another one only if it met a transient
\* failure; after a non-transient failure the call ends with one attempt.
C18_RetryOnlyAfterTransient ==
    \A i \in 1..(Len(Attempts) - 1) : Transient(Attempts[i])

\* ---- C19 ---------------------------------------------------------------
\* C19: every attempt that is followed by anything is followed by a sleep,
\* of 2 ^ attempt seconds (1 s, then 2 s), so no attempt after the first
\* starts without its wait.
C19_BackoffBetweenAttempts ==
    \A i \in 1..(Len(trace) - 1) :
        trace[i].ev = "attempt" =>
            /\ trace[i + 1].ev = "sleep"
            /\ trace[i + 1].seconds = 2 ^ trace[i].n

\* ---- C20 ---------------------------------------------------------------
\* C20: in a refresh a source is reported as failed only after max_retries
\* attempts: a single-request adapter that failed has made 3 requests.
C20_FailedAfterThreeAttempts ==
    \A r \in Refreshers : \A s \in {"USGS", "EMSC", "GFZ"} :
        (Answered(r) /\ Failed(r, s)) => requests[r][s] = max_retries

\* ---- C21 ---------------------------------------------------------------
\* a step of the connectivity test (the readers get_data_sources_status and
\* get_cached_data are operators over the state: they have no step)
TestStep == test_pc # 0 /\ test_pc' # test_pc

\* C21: only the refresh writes: no step of the connectivity test changes a
\* source's status, reliability or last_update, or the cached snapshot and
\* its timestamp.
C21_OnlyRefreshWrites ==
    [][TestStep =>
         /\ data_sources' = data_sources
         /\ cached_data' = cached_data
         /\ last_update' = last_update
         /\ get_data_sources_status' = get_data_sources_status
         /\ get_cached_data' = get_cached_data]_vars

\* ---- C22 ---------------------------------------------------------------
\* the step in which NOAA's adapter returns after its loop over the endpoints
NoaaReturns(r) ==
    /\ results[r]["NOAA"].kind = "pending"
    /\ results'[r]["NOAA"].kind = "dict"
    /\ results'[r]["NOAA"].successful_endpoints # None

\* C22: NOAA issues all its sub-requests whatever their outcomes; its fetch
\* succeeded iff at least one gave data; the reliability it records is
\* 90 x successful / total, which is 0 with status error when none did.
C22_NoaaProportional ==
    [][\A r \in Refreshers :
         NoaaReturns(r) =>
            LET res == results'[r]["NOAA"]
                n == res.successful_endpoints
                entry == data_sources'["NOAA"]
            IN /\ requests'[r]["NOAA"] = NumEndpoints
               /\ res.total_endpoints = NumEndpoints
               /\ res.success <=> (n > 0)
               /\ entry.reliability * res.total_endpoints = Pct(90) * n
               /\ entry.status = (IF n > 0 THEN "active" ELSE "error")
               /\ n = 0 => entry.reliability = 0]_vars

\* witness: NOAA returned with 2 of its 3 endpoints, and the registry holds
\* reliability 60
C22_Witness ==
    \E r \in Refreshers :
        /\ pc[r] = "gather"
        /\ results[r]["NOAA"].successful_endpoints = 2
        /\ results[r]["NOAA"].success
        /\ requests[r]["NOAA"] = NumEndpoints
        /\ data_sources["NOAA"].status = "active"
        /\ data_sources["NOAA"].reliability = Pct(60)

C24_ReliabilityInRange ==
    \A s \in SourceNames :
        /\ data_sources[s].reliability >= 0
        /\ data_sources[s].reliability <= 100 * RelUnit

\* witness: after a connectivity test and a refresh whose merge took NOAA,
\* NOAA's reliability is the one derived from the merged score, 80
C24_Witness ==
    /\ test_response.status = 200
    /\ \E r \in Refreshers :
         /\ Answered(r)
         /\ merged[r].primary_source = "NOAA"
         /\ merged[r].quality_score = ScoreNoaaHigh
    /\ data_sources["NOAA"].reliability = Pct(80)
    /\ data_sources["USGS"].reliability = Pct(100)

\* ---- C25 ---------------------------------------------------------------
\* C25: whatever its three fetches hand over, ingest_all_sources returns a
\* dict with volcano_id, usgs, gvp and noaa, where a fetch that raised is
\* an empty value and the others are the values fetched.
C25_AlwaysAllKeys ==
    all_pc = "returned" =>
        /\ ({"volcano_id"} \cup IngestSources) \subseteq DOMAIN all_result
        /\ all_result.volcano_id = volcano_id
        /\ \A name \in IngestSources :
             all_result[name] = OrEmpty(all_tasks[name])

\* ---- C26 ---------------------------------------------------------------
\* C26: every report of the normal path has sources_updated + len(errors)
\* = 4 and total_sources = 5, so sources_updated is below total_sources.
C26_FourOutcomesOfFive ==
    \A r \in Refreshers :
        Answered(r) =>
            /\ response[r].body.sources_updated + Len(response[r].body.errors)
                 = Len(source_names)
            /\ Len(source_names) = 4
            /\ response[r].body.total_sources = 5
            /\ response[r].body.sources_updated < response[r].body.total_sources

\* witness: a report of a refresh in which all five adapters succeeded:
\* 4 updated, no error
C26_Witness ==
    \E r \in Refreshers :
        /\ Answered(r)
        /\ NumSucceeded(r) = 5
        /\ response[r].body.sources_updated = 4
        /\ response[r].body.errors = << >>

\* ---- C27 ---------------------------------------------------------------
Active(s) == data_sources[s].status = "active"

\* C27: whenever no refresh is in flight, usgs, emsc or gfz is in the cache
\* iff that source is active, and space_weather is in the cache iff NASA or
\* NOAA is active.
C27_CacheAgreesWithRegistry ==
    (\A r \in Refreshers : pc[r] # "gather") =>
        /\ "usgs" \in DOMAIN cached_data <=> Active("USGS")
        /\ "emsc" \in DOMAIN cached_data <=> Active("EMSC")
        /\ "gfz" \in DOMAIN cached_data <=> Active("GFZ")
        /\ "space_weather" \in DOMAIN cached_data
             <=> (Active("NASA") \/ Active("NOAA"))

\* witness: after a second refresh, in which all sources failed after
\* having been active, the cache is empty and no source is active
C27_Witness ==
    /\ started = 2
    /\ \A r \in Refreshers : pc[r] # "gather"
    /\ DOMAIN cached_data = {}
    /\ \A s \in SourceNames :
         data_sources[s].status = "error" /\ data_sources[s].last_update # None

\* ---- C28 ---------------------------------------------------------------
\* C28: a fetch that fails leaves the source's last_update as it was.
C28_FailedFetchKeepsLastUpdate ==
    [][\A r \in Refreshers : \A s \in SourceNames :
         (/\ results[r][s].kind = "pending"
          /\ results'[r][s].kind # "pending"
          /\ ~results'[r][s].success)
         => data_sources'[s].last_update = data_sources[s].last_update]_vars

\* ---- C29 ---------------------------------------------------------------
\* C29: in a refresh a NASA fetch that succeeded has confidence high and the
\* merged feed uses NASA; it uses NOAA, with fallback_used, exactly when
\* NASA failed and NOAA succeeded; the rule of a low-confidence primary
\* (score 0.4) is never the one applied.
C29_NasaWheneverItSucceeded ==
    \A r \in Refreshers :
        merged[r].kind = "dict" =>
            /\ Succeeded(r, "NASA") =>
                 /\ results[r]["NASA"].confidence = "high"
                 /\ merged[r].primary_source = "NASA"
                 /\ ~merged[r].fallback_used
            /\ (merged[r].primary_source = "NOAA" /\ merged[r].fallback_used)
                 <=> (Failed(r, "NASA") /\ Succeeded(r, "NOAA"))
            /\ merged[r].fallback_used => merged[r].primary_source = "NOAA"
            /\ merged[r].quality_score # ScoreNasaLow

\* witness: NASA answered at once and NOAA answered on one endpoint; the
\* merged feed is NASA's, with score 0.9
C29_Witness ==
    \E r \in Refreshers :
        /\ Succeeded(r, "NASA") /\ requests[r]["NASA"] = 1
        /\ Succeeded(r, "NOAA")
        /\ results[r]["NOAA"].successful_endpoints = 1
        /\ merged[r].kind = "dict"
        /\ merged[r].primary_source = "NASA"
        /\ merged[r].quality_score = ScoreNasaHigh

\* ---- C30 ---------------------------------------------------------------
\* C30: an attempt that obtained data and whose cache write failed still
\* makes the call return that data.
C30_FreshDataSurvivesCacheFailure ==
    ingest_pc = "returned" =>
        \A i \in 1..Len(Attempts) :
            (Obtained(Attempts[i]) /\ Attempts[i].outcome.raises = "setex")
            => returned = combined_data(Attempts[i].n, Attempts[i].outcome)

====
